---- MODULE Spec2Model ----
(***************************************************************************)
(* Model of the notion-server tool gateway (src/src/index.ts): the         *)
(* CallTool request handler, the four tool handlers, formatError, the      *)
(* search-result title extraction and the read_page document rendering.    *)
(*                                                                         *)
(* A JavaScript string is a sequence of tokens (TLA+ strings); every       *)
(* whitespace character is a token of its own, so that trim() is computed. *)
(* An optional value (a property that may be undefined) is a sequence of   *)
(* length 0 (undefined) or 1 (the value).                                  *)
(*                                                                         *)
(* A behaviour of Spec is one tool call: the handlers keep no state from   *)
(* one call to the next. The answers of the remote are drawn when a call   *)
(* is issued and delivered in any order. The diagnostic output and the     *)
(* filter and sort arguments of query_database, which no answer depends    *)
(* on, are left out.                                                       *)
(***************************************************************************)
EXTENDS Naturals, Sequences, FiniteSets, TLC

VARIABLES
    pc,         \* position of the tool call in flight
    name,       \* request.params.name
    args,       \* request.params.arguments
    remoteLog,  \* the remote calls issued so far, in order
    answers,    \* what the remote will answer to each call issued: method -> answer
    inflight,   \* the methods called and not answered yet
    arrived,    \* the methods answered, in arrival order
    result,     \* what the request handler returned or threw
    fnPc,       \* position of the pure-function harness
    fnIn,       \* input of the function under check
    fnOut       \* its output

vars == <<pc, name, args, remoteLog, answers, inflight, arrived, result, fnPc, fnIn, fnOut>>
gatewayVars == <<pc, name, args, remoteLog, answers, inflight, arrived, result>>
fnVars == <<fnPc, fnIn, fnOut>>

----------------------------------------------------------------------------
(* JavaScript values *)

None == <<>>
Some(v) == <<v>>

\* ToBoolean of an optional string: undefined and "" are falsy.
Truthy(opt) == opt # None /\ opt[1] # <<>>

\* a || b on optional strings
OrElse(a, b) == IF Truthy(a) THEN a ELSE b

\* `${v}` of an optional string: undefined prints as "undefined".
Template(opt) == IF opt = None THEN <<"undefined">> ELSE opt[1]

Whitespace == {" ", "\n"}

RECURSIVE TrimStart(_)
TrimStart(s) ==
    IF s # <<>> /\ Head(s) \in Whitespace THEN TrimStart(Tail(s)) ELSE s

RECURSIVE TrimEnd(_)
TrimEnd(s) ==
    IF s # <<>> /\ s[Len(s)] \in Whitespace
    THEN TrimEnd(SubSeq(s, 1, Len(s) - 1))
    ELSE s

\* String.prototype.trim
Trim(s) == TrimEnd(TrimStart(s))

RECURSIVE Join(_, _)
\* Array.prototype.join: the strings of ss separated by sep
Join(ss, sep) ==
    IF ss = <<>> THEN <<>>
    ELSE IF Len(ss) = 1 THEN ss[1]
    ELSE ss[1] \o sep \o Join(Tail(ss), sep)

\* The envelope every handler builds: { content: [ { type: "text", text } ] }
Envelope(text) == [kind |-> "envelope", value |-> <<[type |-> "text", text |-> text]>>]
Thrown(what) == [kind |-> "throw", value |-> what]
NoResult == [kind |-> "none", value |-> <<>>]
Returned(what) == [kind |-> "value", value |-> what]

----------------------------------------------------------------------------
(* formatError, index.ts 83-99 *)

StatusValues == {0, 404, 401, 400, 500}      \* 0: no status property
OptTexts(ts) == {None} \cup {Some(t) : t \in ts}

\* A failure value: null/undefined, or an object; an object may be one that
\* JSON.stringify rejects (a cycle, a BigInt field).
ErrorValues ==
    [nullish : {FALSE}, serializable : {TRUE}, status : StatusValues,
     code : OptTexts({<<>>, <<"rate_limited">>}),
     bodyMessage : OptTexts({<<>>, <<"b">>}),
     message : OptTexts({<<>>, <<"m">>})]
    \cup
    [nullish : {FALSE}, serializable : {FALSE}, status : {0, 404},
     code : {None}, bodyMessage : {None}, message : {Some(<<"m">>)}]
    \cup
    [nullish : {TRUE}, serializable : {TRUE}, status : {0},
     code : {None}, bodyMessage : {None}, message : {None}]

\* A value thrown by the JavaScript runtime or by zod: an Error object with a
\* message and no status, code or body.
JsError(msg) ==
    [nullish |-> FALSE, serializable |-> TRUE, status |-> 0, code |-> None,
     bodyMessage |-> None, message |-> Some(msg)]

\* error.body?.message || error.message
Detail(error) == OrElse(error.bodyMessage, error.message)

UnknownErrorText == <<"An unknown error occurred">>

\* Line 84: JSON.stringify(error, null, 2) throws on a value it cannot serialize.
LogThrows(error) == ~error.serializable

\* formatError with the code examined before the status
formatErrorCodeFirst(error) ==
    IF LogThrows(error) THEN Thrown(JsError(<<"TypeError: JSON.stringify">>))
    ELSE IF error.nullish THEN Thrown(JsError(<<"TypeError: reading status">>))
    ELSE IF Truthy(error.code) THEN
        [kind |-> "string",
         value |-> <<"API Error (">> \o error.code[1] \o <<"):", " ">>
                   \o Template(Detail(error))]
    ELSE IF error.status = 404 THEN
        [kind |-> "string",
         value |-> <<"Resource not found. Please check the provided ID. Details:", " ">>
                   \o Template(Detail(error))]
    ELSE IF error.status = 401 THEN
        [kind |-> "string",
         value |-> <<"Authentication error. Please check your API token. Details:", " ">>
                   \o Template(Detail(error))]
    ELSE IF error.status = 400 THEN
        [kind |-> "string",
         value |-> <<"Bad request. Details:", " ">> \o Template(Detail(error))]
    ELSE
        [kind |-> "string",
         value |-> OrElse(Detail(error), Some(UnknownErrorText))[1]]

\* Lines 83-99
formatError(error) ==
    IF LogThrows(error) THEN Thrown(JsError(<<"TypeError: JSON.stringify">>))
    ELSE IF error.nullish THEN Thrown(JsError(<<"TypeError: reading status">>))
    ELSE IF error.status = 404 THEN
        [kind |-> "string",
         value |-> <<"Resource not found. Please check the provided ID. Details:", " ">>
                   \o Template(Detail(error))]
    ELSE IF error.status = 401 THEN
        [kind |-> "string",
         value |-> <<"Authentication error. Please check your API token. Details:", " ">>
                   \o Template(Detail(error))]
    ELSE IF error.status = 400 THEN
        [kind |-> "string",
         value |-> <<"Bad request. Details:", " ">> \o Template(Detail(error))]
    ELSE IF Truthy(error.code) THEN
        [kind |-> "string",
         value |-> <<"API Error (">> \o error.code[1] \o <<"):", " ">>
                   \o Template(Detail(error))]
    ELSE
        [kind |-> "string",
         value |-> OrElse(Detail(error), Some(UnknownErrorText))[1]]

----------------------------------------------------------------------------
(* search_pages result formatting, index.ts 192-214 *)

MaxSegLen == 4

UrlChars == {"Q", "a", "-", "%", "2", "/"}
UrlPrefix == <<"https:", "/", "/", "www.notion.so", "/">>

HexDigits == {"a", "2"}
HexValue(c) == IF c = "a" THEN 10 ELSE 2

\* The character of an ASCII byte %XY; the bytes the alphabet can spell.
CharOfByte(b) ==
    CASE b = 34 -> "\""
      [] b = 42 -> "*"
      [] OTHER -> "?"

RECURSIVE decodeURIComponent(_)
\* A "%" must start an escape %XY of two hex digits; a lone byte >= 0x80 is
\* malformed UTF-8. The result is None when URIError is thrown.
decodeURIComponent(s) ==
    IF s = <<>> THEN Some(<<>>)
    ELSE IF Head(s) # "%" THEN
        LET rest == decodeURIComponent(Tail(s))
        IN  IF rest = None THEN None ELSE Some(<<Head(s)>> \o rest[1])
    ELSE IF Len(s) < 3 \/ s[2] \notin HexDigits \/ s[3] \notin HexDigits THEN None
    ELSE LET byte == 16 * HexValue(s[2]) + HexValue(s[3])
             rest == decodeURIComponent(SubSeq(s, 4, Len(s)))
         IN  IF byte >= 128 \/ rest = None THEN None
             ELSE Some(<<CharOfByte(byte)>> \o rest[1])

\* s.replace(/-/g, ' ')
HyphensToSpaces(s) == [i \in 1..Len(s) |-> IF s[i] = "-" THEN " " ELSE s[i]]

\* url.match(/\/([^/]+)-[^/]+$/): the capture group, or None without a match.
\* The match lies after the last "/"; the greedy group ends at the last "-"
\* that leaves a non-empty tail.
UrlSlug(url) ==
    LET slashes == {i \in 1..Len(url) : url[i] = "/"}
    IN  IF slashes = {} THEN None
        ELSE LET start == CHOOSE i \in slashes : \A j \in slashes : j <= i
                 cuts == {p \in (start + 2)..(Len(url) - 1) : url[p] = "-"}
             IN  IF cuts = {} THEN None
                 ELSE LET p == CHOOSE q \in cuts : \A r \in cuts : r <= q
                      IN  Some(SubSeq(url, start + 1, p - 1))

\* A property value of a search result: absent, or an object that may carry a
\* title array of text runs.
NoRuns == <<>>
TitleProp(runs) == [type |-> "title", title |-> Some(runs)]
PropValues(t) == {None, Some(TitleProp(NoRuns)), Some(TitleProp(<<t>>))}

\* page.properties: undefined, or the properties "title", "Name" and a
\* title-typed property under another name.
PageProperties ==
    {None} \cup
    {Some(r) : r \in [title : PropValues(<<"T">>), Name : PropValues(<<"N">>),
                      Task : PropValues(<<"K">>)]}

\* titleProperty?.title?.[0]?.plain_text
FirstRun(prop) ==
    IF prop = None \/ prop[1].title = None \/ prop[1].title[1] = <<>> THEN None
    ELSE Some(prop[1].title[1][1])

Untitled == <<"Untitled">>

\* Lines 194-210: the try block; a throw inside it leaves title as it is.
PageTitle(page) ==
    LET urlMatch == UrlSlug(page.url)
        decoded == IF urlMatch = None THEN None
                   ELSE decodeURIComponent(HyphensToSpaces(urlMatch[1]))
    IN  IF urlMatch # None /\ decoded = None THEN Untitled      \* URIError, caught
        ELSE LET title == IF urlMatch # None THEN decoded[1] ELSE Untitled
             IN  IF title = Untitled /\ page.properties # None THEN
                     LET props == page.properties[1]
                         titleProperty == IF props.title # None THEN props.title
                                          ELSE props.Name
                     IN  IF Truthy(FirstRun(titleProperty))
                         THEN FirstRun(titleProperty)[1] ELSE title
                 ELSE title

\* The bullet character U+2022
Bullet == "U+2022"

\* Line 212
ResultLine(page) ==
    <<Bullet, " ">> \o PageTitle(page) \o <<"\n", " ", " ", "Link:", " ">> \o page.url

----------------------------------------------------------------------------
(* read_page document rendering, index.ts 235-311 *)

MaxBlocks == 3

\* block[type]: the payload keyed by the discriminant.
Payload(title, runs, checked) == [title |-> title, rich_text |-> runs, checked |-> checked]
Block(type, id, payload) == [type |-> type, id |-> id, payload |-> payload]

BlockId == Some(<<"a", "-", "b">>)

\* The blocks the remote may list: well-formed ones of every branch, and
\* malformed ones (no payload, no id, no rich_text).
BlockValues ==
    { Block("paragraph", BlockId, Some(Payload(None, Some(<<<<"Hello">>>>), FALSE))),
      Block("paragraph", BlockId, None),
      Block("heading_2", BlockId, Some(Payload(None, Some(<<<<"H">>, <<" ">>>>), FALSE))),
      Block("bulleted_list_item", BlockId, Some(Payload(None, Some(<<>>), FALSE))),
      Block("to_do", BlockId, Some(Payload(None, Some(<<<<"Buy", " ", "milk">>>>), FALSE))),
      Block("to_do", BlockId, Some(Payload(None, Some(<<<<"Done">>>>), TRUE))),
      Block("code", BlockId, Some(Payload(None, Some(<<<<"x">>>>), FALSE))),
      Block("callout", BlockId, Some(Payload(None, Some(<<<<"Note">>>>), FALSE))),
      Block("divider", BlockId, Some(Payload(None, None, FALSE))),
      Block("child_page", BlockId, Some(Payload(Some(<<"Sub">>), None, FALSE))),
      Block("child_page", BlockId, None),
      Block("child_database", BlockId, Some(Payload(Some(<<>>), None, FALSE))),
      Block("child_database", None, Some(Payload(Some(<<"Db">>), None, FALSE))) }

RECURSIVE Concat(_)
\* runs.map(t => t.plain_text).join("")
Concat(runs) == IF runs = <<>> THEN <<>> ELSE Head(runs) \o Concat(Tail(runs))

\* id.replace(/-/g, "")
StripHyphens(id) == SelectSeq(id, LAMBDA c : c # "-")

\* The three-backtick code fence
Fence == "(fence)"

PageEmoji == "U+1F4C4"
DatabaseEmoji == "U+1F4CA"

\* Lines 250 and 255: the child line, or the TypeError of reading a property
\* of undefined.
ChildLine(block, emoji, fallback) ==
    IF block.payload = None THEN Thrown(JsError(<<"TypeError: reading title">>))
    ELSE IF block.id = None THEN Thrown(JsError(<<"TypeError: reading replace">>))
    ELSE [kind |-> "string",
          value |-> <<emoji, " ">> \o OrElse(block.payload[1].title, Some(fallback))[1]
                    \o <<" ", "(ID:", " ">> \o StripHyphens(block.id[1]) \o <<")">>]

\* Line 259: block[type]?.rich_text?.map(...).join("") || ""
TextContent(block) ==
    IF block.payload = None \/ block.payload[1].rich_text = None THEN <<>>
    ELSE Concat(block.payload[1].rich_text[1])

\* Lines 262-282: the switch on the discriminant
FormattedContent(block) ==
    LET textContent == TextContent(block)
    IN  CASE block.type \in {"paragraph", "heading_1", "heading_2", "heading_3"} ->
               textContent
          [] block.type \in {"bulleted_list_item", "numbered_list_item"} ->
               <<Bullet, " ">> \o textContent
          [] block.type = "to_do" ->
               (IF block.payload # None /\ block.payload[1].checked
                THEN <<"[x]">> ELSE <<"[", " ", "]">>) \o <<" ">> \o textContent
          [] block.type = "code" ->
               <<Fence, "\n">> \o textContent \o <<"\n", Fence>>
          [] OTHER -> textContent

EmptyLists == [kind |-> "lists", childPages |-> <<>>, childDatabases |-> <<>>,
               contentBlocks |-> <<>>]

RECURSIVE BlockLoop(_, _)
\* Lines 246-287: one pass over the blocks, in order; a throw ends the pass.
BlockLoop(blocks, acc) ==
    IF blocks = <<>> THEN acc
    ELSE LET block == Head(blocks)
         IN  IF block.type = "child_page" THEN
                 LET line == ChildLine(block, PageEmoji, <<"Untitled", " ", "Page">>)
                 IN  IF line.kind = "throw" THEN line
                     ELSE BlockLoop(Tail(blocks),
                            [acc EXCEPT !.childPages = Append(@, line.value)])
             ELSE IF block.type = "child_database" THEN
                 LET line == ChildLine(block, DatabaseEmoji, <<"Untitled", " ", "Database">>)
                 IN  IF line.kind = "throw" THEN line
                     ELSE BlockLoop(Tail(blocks),
                            [acc EXCEPT !.childDatabases = Append(@, line.value)])
             ELSE LET formattedContent == FormattedContent(block)
                  IN  IF formattedContent # <<>>
                      THEN BlockLoop(Tail(blocks),
                             [acc EXCEPT !.contentBlocks = Append(@, formattedContent)])
                      ELSE BlockLoop(Tail(blocks), acc)

\* A page as pages.retrieve answers it: whether it has the shape
\* schemas.notionPage requires, and its properties in insertion order.
PageProp(type, title) == [type |-> type, title |-> title]
Page(valid, properties) == [valid |-> valid, properties |-> properties]

PageValues ==
    { Page(FALSE, <<>>),
      Page(TRUE, <<>>),
      Page(TRUE, <<PageProp("rich_text", None), PageProp("title", Some(<<<<"Notes">>, <<"X">>>>))>>),
      Page(TRUE, <<PageProp("title", Some(<<>>))>>),
      Page(TRUE, <<PageProp("title", Some(<<<<>>>>))>>),
      Page(TRUE, <<PageProp("title", Some(<<<<" ">>>>)), PageProp("title", Some(<<<<"Z">>>>))>>),
      Page(TRUE, <<PageProp("title", None)>>) }

\* Lines 238-239: the first property whose type is "title", its first run.
ResolveTitle(page) ==
    LET titles == SelectSeq(page.properties, LAMBDA prop : prop.type = "title")
    IN  IF titles = <<>> THEN [kind |-> "string", value |-> Untitled]
        ELSE IF titles[1].title = None
             THEN Thrown(JsError(<<"TypeError: reading index 0">>))
        ELSE IF titles[1].title[1] = <<>> \/ titles[1].title[1][1] = <<>>
             THEN [kind |-> "string", value |-> Untitled]
        ELSE [kind |-> "string", value |-> titles[1].title[1][1]]

\* The assembly without the guard on the child pages section
AssembleUnguarded(title, lists) ==
    <<"#", " ">> \o title \o <<"\n", "\n">>
    \o (IF lists.contentBlocks # <<>>
        THEN Join(lists.contentBlocks, <<"\n">>) \o <<"\n", "\n">> ELSE <<>>)
    \o <<"## Child Pages", "\n">> \o Join(lists.childPages, <<"\n">>) \o <<"\n", "\n">>
    \o (IF lists.childDatabases # <<>>
        THEN <<"## Child Databases", "\n">> \o Join(lists.childDatabases, <<"\n">>) \o <<"\n">>
        ELSE <<>>)

\* Lines 290-302: the document before trim()
Assemble(title, lists) ==
    <<"#", " ">> \o title \o <<"\n", "\n">>
    \o (IF lists.contentBlocks # <<>>
        THEN Join(lists.contentBlocks, <<"\n">>) \o <<"\n", "\n">> ELSE <<>>)
    \o (IF lists.childPages # <<>>
        THEN <<"## Child Pages", "\n">> \o Join(lists.childPages, <<"\n">>) \o <<"\n", "\n">>
        ELSE <<>>)
    \o (IF lists.childDatabases # <<>>
        THEN <<"## Child Databases", "\n">> \o Join(lists.childDatabases, <<"\n">>) \o <<"\n">>
        ELSE <<>>)

\* Lines 235-308: the body of the try block of read_page after both answers are in:
\* the text of the envelope, or the value thrown.
Render(page, blocks) ==
    IF ~page.valid THEN Thrown(JsError(<<"ZodError">>))
    ELSE LET title == ResolveTitle(page)
         IN  IF title.kind = "throw" THEN title
             ELSE LET lists == BlockLoop(blocks, EmptyLists)
                  IN  IF lists.kind = "throw" THEN lists
                      ELSE [kind |-> "string", value |-> Trim(Assemble(title.value, lists))]

----------------------------------------------------------------------------
(* The tool call: CallToolRequestSchema handler and toolHandlers,
   index.ts 170-382 and 403-417 *)

MaxResults == 2

\* TOOL_DEFINITIONS / the own properties of toolHandlers
ToolNames == {"search_pages", "read_page", "query_database", "retrieve_database"}

\* Members toolHandlers inherits from Object.prototype
PrototypeNames == {"toString", "constructor", "__proto__"}

RequestNames == ToolNames \cup PrototypeNames \cup {"delete_page"}

\* request.params.arguments: undefined, or an object in which the tool's one
\* required argument is missing, not a string, or a string.
ArgValues ==
    {[isObject |-> FALSE, required |-> "missing"]}
    \cup [isObject : {TRUE}, required : {"missing", "nonstring", "string"}]

QueryText == <<"roadmap">>

\* Line 407: toolHandlers[name], a lookup through the prototype chain.
HandlerOf(n) ==
    IF n \in ToolNames THEN "own"
    ELSE IF n \in {"toString", "constructor"} THEN "inherited function"
    ELSE IF n = "__proto__" THEN "inherited object"
    ELSE "undefined"

\* schemas.toolInputs.*.parse(args), lines 172 and 227
ParseOk(a) == a.isObject /\ a.required = "string"

\* const { databaseId } = args as any, lines 325 and 355: destructuring
\* undefined throws, anything else binds.
DestructureOk(a) == a.isObject

Ok(data) == [ok |-> TRUE, data |-> data, error |-> JsError(<<>>)]
Fail(error) == [ok |-> FALSE, data |-> <<>>, error |-> error]

Failures == {Fail(e) : e \in ErrorValues}

\* Pages notion.search may answer
SearchPage(url, properties) == [url |-> url, properties |-> properties]
NoProps == [title |-> None, Name |-> None, Task |-> None]
SearchPageValues ==
    { SearchPage(UrlPrefix \o <<"Q", "2", "-", "Q", "a", "-", "a", "2">>, None),
      SearchPage(UrlPrefix \o <<"%", "Q", "-", "a">>,
                 Some([NoProps EXCEPT !.title = Some(TitleProp(<<<<"T">>>>))])),
      SearchPage(UrlPrefix \o <<"a", "2">>,
                 Some([NoProps EXCEPT !.Task = Some(TitleProp(<<<<"K">>>>))])) }

RECURSIVE SeqsUpTo(_, _)
\* The sequences over S of length at most n
SeqsUpTo(S, n) ==
    IF n = 0 THEN {<<>>}
    ELSE LET shorter == SeqsUpTo(S, n - 1)
         IN  shorter \cup {Append(q, x) : q \in shorter, x \in S}

SearchAnswers == {Ok(r) : r \in SeqsUpTo(SearchPageValues, MaxResults)} \cup Failures

\* Block lists and pages the remote may answer to read_page's two calls
BlockListValues ==
    { <<>>,
      << Block("paragraph", BlockId, Some(Payload(None, Some(<<<<"Hello">>>>), FALSE))),
         Block("to_do", BlockId, Some(Payload(None, Some(<<<<"Buy", " ", "milk">>>>), FALSE))) >>,
      << Block("child_page", BlockId, Some(Payload(Some(<<"Sub">>), None, FALSE))),
         Block("divider", BlockId, Some(Payload(None, None, FALSE))) >>,
      << Block("child_page", BlockId, None) >> }
BlocksAnswers == {Ok(b) : b \in BlockListValues} \cup Failures
PageAnswers == {Ok(p) : p \in PageValues} \cup Failures

\* Rows and database objects the remote may answer; JSON.stringify(v, null, 2)
RowValues == {<<>>, <<"row1">>, <<"row1", "row2">>}
DatabaseValues == {<<"db1">>, <<"db2">>}
QueryAnswers == {Ok(r) : r \in RowValues} \cup Failures
RetrieveAnswers == {Ok(d) : d \in DatabaseValues} \cup Failures

RECURSIVE StringifyItems(_)
StringifyItems(items) ==
    IF items = <<>> THEN <<>>
    ELSE <<"\n", " ", " ", "{", Head(items), "}">>
         \o (IF Len(items) > 1 THEN <<",">> ELSE <<>>) \o StringifyItems(Tail(items))

\* JSON.stringify(response.results, null, 2), line 338
StringifyRows(rows) ==
    IF rows = <<>> THEN <<"[]">> ELSE <<"[">> \o StringifyItems(rows) \o <<"\n", "]">>

\* JSON.stringify(response, null, 2), line 366
StringifyDatabase(db) == <<"{", "\n", " ", " ">> \o db \o <<"\n", "}">>

\* How the request handler ends: it returns the handler's value (line 412) or
\* rethrows what the handler threw (line 415).
Ends(outcome) ==
    /\ result' = outcome
    /\ pc' = IF outcome.kind = "throw" THEN "threw" ELSE "returned"

\* A catch block that answers with formatError's text behind a prefix
\* (lines 312-321, 342-351, 370-379); a throw of formatError leaves the handler.
Caught(prefix, error) ==
    LET text == formatError(error)
    IN  IF text.kind = "throw" THEN text ELSE Envelope(prefix \o text.value)

Issue(methods, ans) ==
    /\ remoteLog' = remoteLog \o methods
    /\ answers' = ans
    /\ inflight' = {methods[i] : i \in 1..Len(methods)}
    /\ pc' = "executing"

Answered(method) ==
    /\ method \in inflight
    /\ inflight' = inflight \ {method}
    /\ arrived' = Append(arrived, method)

NoCall == UNCHANGED <<remoteLog, answers, inflight, arrived>>

GatewayInit ==
    /\ pc = "idle"
    /\ name = ""
    /\ args = [isObject |-> FALSE, required |-> "missing"]
    /\ remoteLog = <<>>
    /\ answers = <<>>
    /\ inflight = {}
    /\ arrived = <<>>
    /\ result = NoResult

\* Line 404: a request arrives
Receive ==
    /\ pc = "idle"
    /\ \E n \in RequestNames, a \in ArgValues : name' = n /\ args' = a
    /\ pc' = "received"
    /\ UNCHANGED <<remoteLog, answers, inflight, arrived, result, fnVars>>

\* Lines 408-410: no handler under that name
UnknownTool ==
    /\ pc = "received"
    /\ HandlerOf(name) = "undefined"
    /\ Ends(Thrown(JsError(<<"Unknown tool:", " ", name>>)))
    /\ NoCall
    /\ UNCHANGED <<name, args, fnVars>>

\* Line 412 with a member of Object.prototype as the handler: toString and
\* constructor return a value that is no envelope, __proto__ is not callable.
CallPrototypeMember ==
    /\ pc = "received"
    /\ HandlerOf(name) \in {"inherited function", "inherited object"}
    /\ Ends(CASE name = "toString" -> Returned(<<"[object Undefined]">>)
              [] name = "constructor" -> Returned(<<"{}">>)
              [] OTHER -> Thrown(JsError(<<"TypeError: handler is not a function">>)))
    /\ NoCall
    /\ UNCHANGED <<name, args, fnVars>>

\* search_pages up to its await, lines 172-179
SearchPagesStart ==
    /\ pc = "received"
    /\ name = "search_pages"
    /\ IF ParseOk(args)
       THEN /\ \E a \in SearchAnswers : Issue(<<"search">>, [search |-> a])
            /\ UNCHANGED <<arrived, result>>
       ELSE Ends(Thrown(JsError(<<"ZodError">>))) /\ NoCall
    /\ UNCHANGED <<name, args, fnVars>>

\* Lines 181-223: the text of the answer
SearchText(query, results) ==
    IF results = <<>>
    THEN <<"No pages found matching", " ", "\"">> \o query \o <<"\"">>
    ELSE <<"Found", " ", ToString(Len(results)), " ", "pages matching", " ", "\"">>
         \o query \o <<"\"", ":", "\n", "\n">>
         \o Join([i \in 1..Len(results) |-> ResultLine(results[i])], <<"\n", "\n">>)

\* search_pages after its await, lines 175-223; it has no catch block, a
\* rejected call leaves the handler.
SearchPagesAnswer ==
    /\ pc = "executing"
    /\ name = "search_pages"
    /\ Answered("search")
    /\ Ends(IF answers.search.ok
            THEN Envelope(SearchText(QueryText, answers.search.data))
            ELSE Thrown(answers.search.error))
    /\ UNCHANGED <<name, args, remoteLog, answers, fnVars>>

ListMethod == "blocks.children.list"
RetrieveMethod == "pages.retrieve"

\* read_page up to its await, lines 227-233: both calls are issued, then
\* Promise.all waits.
ReadPageStart ==
    /\ pc = "received"
    /\ name = "read_page"
    /\ IF ParseOk(args)
       THEN /\ \E b \in BlocksAnswers, p \in PageAnswers :
                 Issue(<<ListMethod, RetrieveMethod>>,
                       (ListMethod :> b) @@ (RetrieveMethod :> p))
            /\ UNCHANGED <<arrived, result>>
       ELSE Ends(Thrown(JsError(<<"ZodError">>))) /\ NoCall
    /\ UNCHANGED <<name, args, fnVars>>

\* Lines 235-321 once Promise.all has settled with both answers
ReadPageBody(blocks, page) ==
    LET doc == Render(page, blocks)
    IN  IF doc.kind = "throw" THEN Caught(<<>>, doc.value) ELSE Envelope(doc.value)

\* Promise.all on an answer (line 230): it rejects with the first rejection,
\* fulfils once nothing is pending, and waits otherwise.
PromiseAll(ok, pending) ==
    IF ~ok THEN "rejected" ELSE IF pending = {} THEN "fulfilled" ELSE "pending"

\* The handler as it would be with two awaits in a row instead of Promise.all:
\* it goes on once both answers are in, and the failure of the block listing
\* is the one reported when both calls fail.
ReadPageSettleSequential(method) ==
    IF pc # "executing" \/ inflight' # {} THEN UNCHANGED <<pc, result>>
    ELSE IF ~answers[ListMethod].ok THEN Ends(Caught(<<>>, answers[ListMethod].error))
    ELSE IF ~answers[RetrieveMethod].ok
         THEN Ends(Caught(<<>>, answers[RetrieveMethod].error))
    ELSE Ends(ReadPageBody(answers[ListMethod].data, answers[RetrieveMethod].data))

\* What an answer to one of the two calls of read_page does to the handler; an
\* answer that comes after the handler has ended is dropped.
ReadPageSettle(method) ==
    LET settled == PromiseAll(answers[method].ok, inflight')
    IN  IF pc # "executing" \/ settled = "pending" THEN UNCHANGED <<pc, result>>
        ELSE IF settled = "rejected" THEN Ends(Caught(<<>>, answers[method].error))
        ELSE Ends(ReadPageBody(answers[ListMethod].data, answers[RetrieveMethod].data))

\* blocks.children.list answers
BlocksAnswer ==
    /\ name = "read_page"
    /\ Answered(ListMethod)
    /\ ReadPageSettle(ListMethod)
    /\ UNCHANGED <<name, args, remoteLog, answers, fnVars>>

\* pages.retrieve answers
PageAnswer ==
    /\ name = "read_page"
    /\ Answered(RetrieveMethod)
    /\ ReadPageSettle(RetrieveMethod)
    /\ UNCHANGED <<name, args, remoteLog, answers, fnVars>>

\* query_database up to its await, lines 325-332
QueryDatabaseStart ==
    /\ pc = "received"
    /\ name = "query_database"
    /\ IF DestructureOk(args)
       THEN /\ \E a \in QueryAnswers : Issue(<<"databases.query">>, [query |-> a])
            /\ UNCHANGED <<arrived, result>>
       ELSE Ends(Thrown(JsError(<<"TypeError: cannot destructure">>))) /\ NoCall
    /\ UNCHANGED <<name, args, fnVars>>

\* query_database after its await, lines 334-351
QueryDatabaseAnswer ==
    /\ pc = "executing"
    /\ name = "query_database"
    /\ Answered("databases.query")
    /\ Ends(IF answers.query.ok
            THEN Envelope(StringifyRows(answers.query.data))
            ELSE Caught(<<"Error querying database:", " ">>, answers.query.error))
    /\ UNCHANGED <<name, args, remoteLog, answers, fnVars>>

\* retrieve_database up to its await, lines 355-360
RetrieveDatabaseStart ==
    /\ pc = "received"
    /\ name = "retrieve_database"
    /\ IF DestructureOk(args)
       THEN /\ \E a \in RetrieveAnswers : Issue(<<"databases.retrieve">>, [retrieve |-> a])
            /\ UNCHANGED <<arrived, result>>
       ELSE Ends(Thrown(JsError(<<"TypeError: cannot destructure">>))) /\ NoCall
    /\ UNCHANGED <<name, args, fnVars>>

\* retrieve_database after its await, lines 362-379
RetrieveDatabaseAnswer ==
    /\ pc = "executing"
    /\ name = "retrieve_database"
    /\ Answered("databases.retrieve")
    /\ Ends(IF answers.retrieve.ok
            THEN Envelope(StringifyDatabase(answers.retrieve.data))
            ELSE Caught(<<>>, answers.retrieve.error))
    /\ UNCHANGED <<name, args, remoteLog, answers, fnVars>>

FnIdle == fnPc = "off" /\ fnIn = <<>> /\ fnOut = NoResult

Init == GatewayInit /\ FnIdle

Next ==
    \/ Receive
    \/ UnknownTool
    \/ CallPrototypeMember
    \/ SearchPagesStart
    \/ SearchPagesAnswer
    \/ ReadPageStart
    \/ BlocksAnswer
    \/ PageAnswer
    \/ QueryDatabaseStart
    \/ QueryDatabaseAnswer
    \/ RetrieveDatabaseStart
    \/ RetrieveDatabaseAnswer

Spec == Init /\ [][Next]_vars

----------------------------------------------------------------------------
(* Harnesses that apply one function of the program to every input of a
   bounded domain *)

\* formatError on every failure value
InitErr == GatewayInit /\ fnPc = "in" /\ fnIn \in ErrorValues /\ fnOut = NoResult

ApplyFormatError ==
    /\ fnPc = "in"
    /\ fnOut' = formatError(fnIn)
    /\ fnPc' = "out"
    /\ UNCHANGED <<fnIn, gatewayVars>>

NextErr == ApplyFormatError
SpecErr == InitErr /\ [][NextErr]_vars

\* The title of a search result, for every last path segment of the URL and
\* every set of properties
SearchInputs ==
    {SearchPage(UrlPrefix \o seg, props) :
        seg \in SeqsUpTo(UrlChars, MaxSegLen), props \in PageProperties}

InitTitle == GatewayInit /\ fnPc = "in" /\ fnIn \in SearchInputs /\ fnOut = NoResult

ApplyResultLine ==
    /\ fnPc = "in"
    /\ fnOut' = [kind |-> "string", value |-> ResultLine(fnIn)]
    /\ fnPc' = "out"
    /\ UNCHANGED <<fnIn, gatewayVars>>

NextTitle == ApplyResultLine
SpecTitle == InitTitle /\ [][NextTitle]_vars

\* The rendering of every page with every block list
RenderInputs ==
    {[page |-> p, blocks |-> b] : p \in PageValues, b \in SeqsUpTo(BlockValues, MaxBlocks)}

InitRender == GatewayInit /\ fnPc = "in" /\ fnIn \in RenderInputs /\ fnOut = NoResult

ApplyRender ==
    /\ fnPc = "in"
    /\ fnOut' = Render(fnIn.page, fnIn.blocks)
    /\ fnPc' = "out"
    /\ UNCHANGED <<fnIn, gatewayVars>>

NextRender == ApplyRender
SpecRender == InitRender /\ [][NextRender]_vars

----------------------------------------------------------------------------
(* Properties *)

StartsWith(s, prefix) == Len(s) >= Len(prefix) /\ SubSeq(s, 1, Len(prefix)) = prefix
EndsWith(s, suffix) ==
    Len(s) >= Len(suffix) /\ SubSeq(s, Len(s) - Len(suffix) + 1, Len(s)) = suffix

Ended == pc \in {"returned", "threw"}

\* The required argument is missing or is no string (or there are no arguments)
InvalidArgs == ~(args.isObject /\ args.required = "string")

\* { content: [ { type: "text", text: string } ] }
IsEnvelope(r) ==
    /\ r.kind = "envelope"
    /\ Len(r.value) = 1
    /\ r.value[1].type = "text"
    /\ r.value[1].text \in Seq(STRING)

\* C1: for every tool of the catalog, a call whose required argument is missing
\* or is not a string makes no remote call.
C1_InvalidArgsNeverReachRemote ==
    (name \in ToolNames /\ InvalidArgs) => remoteLog = <<>>

\* C2: once the arguments are valid, a tool call never ends in a transport-level
\* failure: only an unknown tool name or a validation failure propagates.
C2_OnlyUnknownOrInvalidPropagate ==
    pc = "threw" => (name \notin ToolNames \/ InvalidArgs)

\* C3: a call whose name is none of the four catalog names ends with the
\* "unknown tool" error, never executes, makes no remote call and returns
\* no value.
C3_UnknownNameFails ==
    (pc # "idle" /\ name \notin ToolNames) =>
        /\ pc \in {"received", "threw"}
        /\ remoteLog = <<>>
        /\ pc = "threw" =>
             /\ result.kind = "throw"
             /\ result.value = JsError(<<"Unknown tool:", " ", name>>)

\* C4: every value a tool call returns, for any name and any arguments, is an
\* envelope with exactly one text element.
C4_EveryReturnIsOneTextEnvelope ==
    pc = "returned" => IsEnvelope(result)

NotFoundPhrase == <<"Resource not found. Please check the provided ID. Details:", " ">>
AuthPhrase == <<"Authentication error. Please check your API token. Details:", " ">>
BadRequestPhrase == <<"Bad request. Details:", " ">>

\* The detail the claim names: the nested body message when there is one,
\* else the top-level message.
ClaimedDetail(e) ==
    IF Truthy(e.bodyMessage) THEN e.bodyMessage[1] ELSE Template(e.message)

\* C5: formatError classifies in priority order: status 404, 401, 400, then a
\* present code, then the message, then the generic fallback; a status wins
\* over a code and the nested body message over the top-level one.
C5_ClassificationOrder ==
    (fnPc = "out" /\ fnOut.kind = "string") =>
        LET e == fnIn
            out == fnOut.value
            other == e.status \notin {404, 401, 400}
        IN  /\ e.status = 404 => out = NotFoundPhrase \o ClaimedDetail(e)
            /\ e.status = 401 => out = AuthPhrase \o ClaimedDetail(e)
            /\ e.status = 400 => out = BadRequestPhrase \o ClaimedDetail(e)
            /\ (other /\ Truthy(e.code)) =>
                   out = <<"API Error (">> \o e.code[1] \o <<"):", " ">> \o ClaimedDetail(e)
            /\ (other /\ ~Truthy(e.code) /\ Truthy(e.bodyMessage)) => out = e.bodyMessage[1]
            /\ (other /\ ~Truthy(e.code) /\ ~Truthy(e.bodyMessage) /\ Truthy(e.message)) =>
                   out = e.message[1]
            /\ (other /\ ~Truthy(e.code) /\ ~Truthy(e.bodyMessage) /\ ~Truthy(e.message)) =>
                   out = UnknownErrorText

\* A 404 that also carries a code, a body message and a message was normalized.
C5_Witness ==
    /\ fnPc = "out"
    /\ fnOut.kind = "string"
    /\ fnIn.status = 404
    /\ Truthy(fnIn.code) /\ Truthy(fnIn.bodyMessage) /\ Truthy(fnIn.message)

\* The text run the property stage finds: the first run of the property named
\* "title" or, without one, of the property named "Name".
PropertyRun(page) ==
    IF page.properties = None THEN None
    ELSE LET props == page.properties[1]
         IN  FirstRun(IF props.title # None THEN props.title ELSE props.Name)

\* The title the two-stage fallback names: the decoded slug when the URL gives
\* one; when it gives none (no match, or decoding fails) the text run of the
\* property stage when there is one; else "Untitled".
ClaimedTitle(page) ==
    LET slug == UrlSlug(page.url)
        decoded == IF slug = None THEN None ELSE decodeURIComponent(HyphensToSpaces(slug[1]))
    IN  IF decoded # None THEN decoded[1]
        ELSE IF Truthy(PropertyRun(page)) THEN PropertyRun(page)[1]
        ELSE Untitled

\* C6: the result line of a page is the bullet, the title of the two-stage
\* fallback (URL slug, else property text run, else "Untitled"), then the link line.
C6_TwoStageTitle ==
    fnPc = "out" =>
        fnOut.value = <<Bullet, " ">> \o ClaimedTitle(fnIn)
                      \o <<"\n", " ", " ", "Link:", " ">> \o fnIn.url

IsChild(block) == block.type \in {"child_page", "child_database"}

\* The sections of the document the claim names, each a list of lines: the
\* heading, the content lines of the non-child blocks, the child pages under
\* their header, the child databases under theirs; empty sections are left out.
ClaimedSections(title, blocks) ==
    LET content == SelectSeq([i \in 1..Len(blocks) |->
                                 IF IsChild(blocks[i]) THEN <<>>
                                 ELSE FormattedContent(blocks[i])],
                             LAMBDA line : line # <<>>)
        pages == SelectSeq(blocks, LAMBDA b : b.type = "child_page")
        databases == SelectSeq(blocks, LAMBDA b : b.type = "child_database")
        pageLines == [i \in 1..Len(pages) |->
                         ChildLine(pages[i], PageEmoji, <<"Untitled", " ", "Page">>).value]
        databaseLines == [i \in 1..Len(databases) |->
                             ChildLine(databases[i], DatabaseEmoji,
                                       <<"Untitled", " ", "Database">>).value]
    IN  << <<<<"#", " ">> \o title>> >>
        \o (IF content # <<>> THEN <<content>> ELSE <<>>)
        \o (IF pages # <<>> THEN << <<<<"## Child Pages">>>> \o pageLines >> ELSE <<>>)
        \o (IF databases # <<>>
            THEN << <<<<"## Child Databases">>>> \o databaseLines >> ELSE <<>>)

\* The sections, each with its lines one per line, a blank line between two
\* sections, trimmed.
ClaimedDocument(title, blocks) ==
    LET sections == ClaimedSections(title, blocks)
    IN  Trim(Join([i \in 1..Len(sections) |-> Join(sections[i], <<"\n">>)], <<"\n", "\n">>))

NotesPage ==
    Page(TRUE, <<PageProp("rich_text", None), PageProp("title", Some(<<<<"Notes">>, <<"X">>>>))>>)
NotesBlocks ==
    << Block("paragraph", BlockId, Some(Payload(None, Some(<<<<"Hello">>>>), FALSE))),
       Block("to_do", BlockId, Some(Payload(None, Some(<<<<"Buy", " ", "milk">>>>), FALSE))) >>
NotesDocument ==
    <<"#", " ", "Notes", "\n", "\n", "Hello", "\n", "[", " ", "]", " ", "Buy", " ", "milk">>

C8_NoBlockFailsRendering ==
    (fnPc = "out" /\ fnIn.page.valid /\ ResolveTitle(fnIn.page).kind = "string") =>
        fnOut.kind = "string"

Orders == {<<ListMethod, RetrieveMethod>>, <<RetrieveMethod, ListMethod>>}

\* What read_page answers when the two answers arrive in the given order
OutcomeInOrder(order) ==
    IF ~answers[order[1]].ok THEN Caught(<<>>, answers[order[1]].error)
    ELSE IF ~answers[order[2]].ok THEN Caught(<<>>, answers[order[2]].error)
    ELSE ReadPageBody(answers[ListMethod].data, answers[RetrieveMethod].data)

IsDocument(r) ==
    /\ r.kind = "envelope"
    /\ r.value[1].text # <<>>
    /\ Head(r.value[1].text) = "#"

FailedArrivals == {i \in 1..Len(arrived) : ~answers[arrived[i]].ok}
FirstFailure == arrived[CHOOSE i \in FailedArrivals : \A j \in FailedArrivals : i <= j]

C10_FormatErrorTotal ==
    fnPc = "out" => fnOut.kind = "string"

====
